---- MODULE Spec2Model ----
(***************************************************************************)
(* phantom_limb: a Sensor (emitter) maps quanta to u16 fiber ids and sends *)
(* them over a connected UDP socket; a Motor (receiver) receives one       *)
(* datagram, deserializes a u16 and runs the behavior registered for it.   *)
(* Model of src/types/sensor.rs, src/types/motor.rs and src/error.rs.      *)
(***************************************************************************)
EXTENDS Integers, Sequences, FiniteSets, Bags, TLC

VARIABLES sensor, motor, net, last, codec

vars == <<sensor, motor, net, last, codec>>

----------------------------------------------------------------------------
(* Bounds and input sets *)

\* at most this many datagrams are in flight at once
MaxInFlight == 1

\* largest u16 value (the fiber id type of both tables)
U16Max == 65535

Ip == "127.0.0.1"

Addr(port) == [ip |-> Ip, port |-> port]

NoAddr == [ip |-> "0.0.0.0", port |-> 0]

\* port 0 asks the system to assign a port
RequestedPorts == {0, 5000}

\* the ports the system has left to hand out for port 0
EphemeralPorts == {40000}

\* remote addresses the caller connects to: the fixed port and one where
\* no endpoint of this program listens
Remotes == {Addr(5000), Addr(6000)}

\* the quanta (symbols) of the Sensor, type Q
Quanta == {"spike_a", "unknown"}

\* the quanta the caller registers; "unknown" never gets a receptor
Receptors == {"spike_a"}

\* the fiber ids used in registrations
FiberIds == {7, 65535}

\* behaviors B: Fn(A) -> R, named by what they return
Behaviors == {"fired", "idle"}

Args == {"a1", "a2"}

\* caller-supplied scratch buffers with their prior contents
Buffers == {<<0>>, <<0, 0, 0>>}

\* datagrams of senders other than the Sensor: truncated, over-long, and a
\* well-formed id nobody registered
ForeignPayloads == {<<7>>, <<7, 0, 1>>, <<1, 0>>}

ForeignAddr == Addr(6000)

EmptyMap == [k \in {} |-> 0]

Min(a, b) == IF a < b THEN a ELSE b

----------------------------------------------------------------------------
(* Wire codec: bincode's fixed-width little-endian u16 *)

\* serialize with the high byte first
serialize_be(nid) == <<nid \div 256, nid % 256>>

\* bincode::serialize(&u16): two bytes, low byte first; never fails
serialize(nid) == <<nid % 256, nid \div 256>>

\* deserialize_from reading the high byte first
deserialize_from_be(buff) ==
    IF Len(buff) < 2
    THEN [ok |-> FALSE, val |-> 0]
    ELSE [ok |-> TRUE, val |-> 256 * buff[1] + buff[2]]

\* deserialize_from taking a missing high byte as zero
deserialize_from_pad(buff) ==
    IF Len(buff) < 1
    THEN [ok |-> FALSE, val |-> 0]
    ELSE [ok |-> TRUE,
          val |-> buff[1] + 256 * (IF Len(buff) >= 2 THEN buff[2] ELSE 0)]

\* bincode::deserialize_from(reader): reads two bytes from the front of the
\* reader; fewer than two bytes is an Io(UnexpectedEof) error; bytes after
\* the first two are left unread
deserialize_from(buff) ==
    IF Len(buff) < 2
    THEN [ok |-> FALSE, val |-> 0]
    ELSE [ok |-> TRUE, val |-> buff[1] + 256 * buff[2]]

----------------------------------------------------------------------------
(* The datagram socket *)

UsedPorts ==
    (IF sensor.built THEN {sensor.socket.local.port} ELSE {})
    \cup (IF motor.built THEN {motor.socket.local.port} ELSE {})

\* UdpSocket::bind: the sockets the system may return; none when the port
\* is taken
bind(address) ==
    IF address.port = 0
    THEN {[local |-> Addr(p), peer |-> <<>>] : p \in EphemeralPorts \ UsedPorts}
    ELSE IF address.port \in UsedPorts
         THEN {}
         ELSE {[local |-> address, peer |-> <<>>]}

\* UdpSocket::local_addr
local_addr(socket) == socket.local

\* a connect that keeps the peer a socket already has
socket_connect_sticky(socket, remote) ==
    IF socket.peer = <<>> THEN [socket EXCEPT !.peer = <<remote>>] ELSE socket

\* UdpSocket::connect, successful: the socket is associated with remote
socket_connect(socket, remote) == [socket EXCEPT !.peer = <<remote>>]

\* UdpSocket::send on a connected socket: the datagram handed to the
\* transport, addressed to the connected peer
socket_send(socket, bytes) ==
    [src |-> socket.local, dst |-> socket.peer[1], payload |-> bytes]

\* UdpSocket::recv into buffer: at most Len(buffer) bytes of the datagram
\* are copied to the front of the buffer, the rest of the datagram is
\* discarded, the rest of the buffer keeps its contents
socket_recv(buffer, payload) ==
    LET n == Min(Len(payload), Len(buffer))
    IN  [n_bytes |-> n,
         buffer  |-> [i \in 1..Len(buffer) |->
                        IF i <= n THEN payload[i] ELSE buffer[i]]]

InFlight == BagCardinality(net)

\* the datagrams of a sequence, as a bag
BagOfSeq(seq) == [d \in {seq[i] : i \in 1..Len(seq)} |-> 1]

----------------------------------------------------------------------------
(* Sensor *)

NoSensor ==
    [built |-> FALSE, tract_name |-> "", address |-> NoAddr,
     socket |-> [local |-> NoAddr, peer |-> <<>>], spectrum |-> EmptyMap]

\* Sensor::new without the local_addr() update: keeps the requested address
Sensor_new_ok_requested(tract_name, address, socket) ==
    [built |-> TRUE, tract_name |-> tract_name, address |-> address,
     socket |-> socket, spectrum |-> EmptyMap]

\* Sensor::new after a successful bind: the struct is built with the
\* requested address, then address is overwritten by socket.local_addr()
Sensor_new_ok(tract_name, address, socket) ==
    LET s0 == [built |-> TRUE, tract_name |-> tract_name, address |-> address,
               socket |-> socket, spectrum |-> EmptyMap]
    IN  [s0 EXCEPT !.address = local_addr(s0.socket)]

Sensor_new(tract_name, address) ==
    /\ ~sensor.built
    /\ \/ \E socket \in bind(address) :
            /\ sensor' = Sensor_new_ok(tract_name, address, socket)
            /\ last' = [op |-> "Sensor::new", address |-> address, res |-> "Ok"]
       \/ /\ sensor' = sensor
          /\ last' = [op |-> "Sensor::new", address |-> address,
                      res |-> "SocketFailed"]
    /\ UNCHANGED <<motor, net, codec>>

\* insert that keeps the binding a key already has (entry().or_insert)
insert_keep(map, key, value) ==
    [k \in DOMAIN map \cup {key} |-> IF k \in DOMAIN map THEN map[k] ELSE value]

\* HashMap::insert: the map with key bound to value, any earlier binding
\* of key gone
insert(map, key, value) ==
    [k \in DOMAIN map \cup {key} |-> IF k = key THEN value ELSE map[k]]

\* what HashMap::get finds, as a sequence of zero or one values
get(map, key) == IF key \in DOMAIN map THEN <<map[key]>> ELSE <<>>

add_receptor(quantum, fid) ==
    /\ sensor.built
    /\ sensor' = [sensor EXCEPT !.spectrum = insert(@, quantum, fid)]
    /\ last' = [op |-> "add_receptor", quantum |-> quantum, fid |-> fid,
                old |-> get(sensor.spectrum, quantum)]
    /\ UNCHANGED <<motor, net, codec>>

\* connect that leaves the address field alone
connect_ok_noaddr(s, remote) ==
    [s EXCEPT !.socket = socket_connect(@, remote)]

\* Sensor::connect after the socket's connect succeeded
connect_ok(s, remote) ==
    [s EXCEPT !.socket = socket_connect(@, remote), !.address = remote]

\* connect that writes the address field before the socket's connect, so
\* that a failed connect leaves the new address behind
connect_addrfirst(remote) ==
    /\ sensor.built
    /\ \/ /\ sensor' = connect_ok(sensor, remote)
          /\ last' = [op |-> "connect", remote |-> remote, res |-> "Ok"]
       \/ /\ sensor' = [sensor EXCEPT !.address = remote]
          /\ last' = [op |-> "connect", remote |-> remote,
                      res |-> "SocketFailed"]
    /\ UNCHANGED <<motor, net, codec>>

connect(remote) ==
    /\ sensor.built
    /\ \/ /\ sensor' = connect_ok(sensor, remote)
          /\ last' = [op |-> "connect", remote |-> remote, res |-> "Ok"]
       \/ /\ sensor' = sensor
          /\ last' = [op |-> "connect", remote |-> remote,
                      res |-> "SocketFailed"]
    /\ UNCHANGED <<motor, net, codec>>

\* set_target_address that records the address without connecting the socket
set_target_address_ok_noconnect(s, target_address) ==
    [s EXCEPT !.address = target_address]

\* TractSender::set_target_address after the socket's connect succeeded
set_target_address_ok(s, target_address) ==
    [s EXCEPT !.socket = socket_connect(@, target_address),
              !.address = target_address]

\* the socket's connect failed: connect returns at the ? with the error
\* as BuildError::SocketFailed, set_target_address with the bare
\* std::io::Error of its signature
set_target_address(target_address) ==
    /\ sensor.built
    /\ \/ /\ sensor' = set_target_address_ok(sensor, target_address)
          /\ last' = [op |-> "set_target_address", remote |-> target_address,
                      res |-> "Ok"]
       \/ /\ sensor' = sensor
          /\ last' = [op |-> "set_target_address", remote |-> target_address,
                      res |-> "IoError"]
    /\ UNCHANGED <<motor, net, codec>>

\* send_impulse that sends id 0 for a quantum without receptor
send_impulse_result_default(s, quantum, io_ok) ==
    LET nid == serialize(IF quantum \in DOMAIN s.spectrum
                         THEN s.spectrum[quantum] ELSE 0)
    IN  IF io_ok /\ s.socket.peer # <<>>
        THEN [res |-> "Ok", name |-> "", self |-> s,
              out |-> <<socket_send(s.socket, nid)>>]
        ELSE [res |-> "SocketFailed", name |-> "", self |-> s, out |-> <<>>]

\* send_impulse that takes the receptor out of the spectrum when it sends
send_impulse_result_take(s, quantum, io_ok) ==
    IF quantum \in DOMAIN s.spectrum
    THEN LET nid == serialize(s.spectrum[quantum])
             s1  == [s EXCEPT !.spectrum =
                        [k \in DOMAIN s.spectrum \ {quantum} |-> s.spectrum[k]]]
         IN  IF io_ok /\ s.socket.peer # <<>>
             THEN [res |-> "Ok", name |-> "", self |-> s1,
                   out |-> <<socket_send(s.socket, nid)>>]
             ELSE [res |-> "SocketFailed", name |-> "", self |-> s1,
                   out |-> <<>>]
    ELSE [res |-> "UnrecognizedTrigger", name |-> s.tract_name, self |-> s,
          out |-> <<>>]

\* send_impulse whose datagram goes out although the call reports failure
send_impulse_result_leak(s, quantum, io_ok) ==
    IF quantum \in DOMAIN s.spectrum
    THEN LET nid == serialize(s.spectrum[quantum])
         IN  IF s.socket.peer # <<>>
             THEN [res |-> IF io_ok THEN "Ok" ELSE "SocketFailed",
                   name |-> "", self |-> s,
                   out |-> <<socket_send(s.socket, nid)>>]
             ELSE [res |-> "SocketFailed", name |-> "", self |-> s,
                   out |-> <<>>]
    ELSE [res |-> "UnrecognizedTrigger", name |-> s.tract_name, self |-> s,
          out |-> <<>>]

\* send_impulse that tries the socket before it looks the quantum up
send_impulse_result_sendfirst(s, quantum, io_ok) ==
    IF ~io_ok \/ s.socket.peer = <<>>
    THEN [res |-> "SocketFailed", name |-> "", self |-> s, out |-> <<>>]
    ELSE IF quantum \in DOMAIN s.spectrum
    THEN [res |-> "Ok", name |-> "", self |-> s,
          out |-> <<socket_send(s.socket, serialize(s.spectrum[quantum]))>>]
    ELSE [res |-> "UnrecognizedTrigger", name |-> s.tract_name, self |-> s,
          out |-> <<>>]

\* send_impulse that sends to the address field (send_to) when the socket
\* has no peer
send_impulse_result_toaddress(s, quantum, io_ok) ==
    IF quantum \in DOMAIN s.spectrum
    THEN LET nid == serialize(s.spectrum[quantum])
         IN  IF io_ok
             THEN [res |-> "Ok", name |-> "", self |-> s,
                   out |-> <<[src |-> s.socket.local, dst |-> s.address,
                              payload |-> nid]>>]
             ELSE [res |-> "SocketFailed", name |-> "", self |-> s,
                   out |-> <<>>]
    ELSE [res |-> "UnrecognizedTrigger", name |-> s.tract_name, self |-> s,
          out |-> <<>>]

\* Sensor::send_impulse on sensor s; io_ok says whether the transport
\* accepts the datagram. A socket that was never connected has no
\* destination and its send fails. self is the sensor after the call
\* (&self: the call cannot change it), out the datagrams handed over.
send_impulse_result(s, quantum, io_ok) ==
    IF quantum \in DOMAIN s.spectrum
    THEN LET nid == serialize(s.spectrum[quantum])
         IN  IF io_ok /\ s.socket.peer # <<>>
             THEN [res |-> "Ok", name |-> "", self |-> s,
                   out |-> <<socket_send(s.socket, nid)>>]
             ELSE [res |-> "SocketFailed", name |-> "", self |-> s,
                   out |-> <<>>]
    ELSE [res |-> "UnrecognizedTrigger", name |-> s.tract_name, self |-> s,
          out |-> <<>>]

send_impulse(quantum) ==
    /\ sensor.built
    /\ \E io_ok \in BOOLEAN :
         LET r == send_impulse_result(sensor, quantum, io_ok)
         IN  /\ InFlight + Len(r.out) <= MaxInFlight
             /\ sensor' = r.self
             /\ net' = net (+) BagOfSeq(r.out)
             /\ last' = [op |-> "send_impulse", quantum |-> quantum,
                         res |-> r.res, name |-> r.name, out |-> r.out,
                         pre |-> [sensor |-> sensor, net |-> net]]
    /\ UNCHANGED <<motor, codec>>

\* Tract::num_fibers for Sensor
Sensor_num_fibers(s) == Cardinality(DOMAIN s.spectrum)

----------------------------------------------------------------------------
(* Motor *)

NoMotor ==
    [built |-> FALSE, tract_name |-> "", address |-> NoAddr,
     socket |-> [local |-> NoAddr, peer |-> <<>>], fibers |-> EmptyMap]

\* Motor::new after a successful bind
Motor_new_ok(tract_name, address, socket) ==
    LET m0 == [built |-> TRUE, tract_name |-> tract_name, address |-> address,
               socket |-> socket, fibers |-> EmptyMap]
    IN  [m0 EXCEPT !.address = local_addr(m0.socket)]

Motor_new(tract_name, address) ==
    /\ ~motor.built
    /\ \/ \E socket \in bind(address) :
            /\ motor' = Motor_new_ok(tract_name, address, socket)
            /\ last' = [op |-> "Motor::new", address |-> address, res |-> "Ok"]
       \/ /\ motor' = motor
          /\ last' = [op |-> "Motor::new", address |-> address,
                      res |-> "SocketFailed"]
    /\ UNCHANGED <<sensor, net, codec>>

add_fiber(impulse, behavior) ==
    /\ motor.built
    /\ motor' = [motor EXCEPT !.fibers = insert(@, impulse, behavior)]
    /\ last' = [op |-> "add_fiber", impulse |-> impulse, behavior |-> behavior,
                old |-> get(motor.fibers, impulse)]
    /\ UNCHANGED <<sensor, net, codec>>

\* behavior(args): one invocation of a behavior, which is also its result
call(behavior, args) == [behavior |-> behavior, args |-> args]

\* recv_impulse that deserializes the whole buffer, not buffer[..n_bytes]
recv_impulse_result_whole(m, buffer, payload, args) ==
    LET rx      == socket_recv(buffer, payload)
        impulse == deserialize_from(rx.buffer)
    IN  IF ~impulse.ok
        THEN [res |-> "SerdeFailed", ret |-> <<>>, impulse |-> -1,
              invoked |-> <<>>, buffer |-> rx.buffer, self |-> m]
        ELSE IF impulse.val \in DOMAIN m.fibers
        THEN [res |-> "Ok", ret |-> <<call(m.fibers[impulse.val], args)>>,
              impulse |-> impulse.val,
              invoked |-> <<call(m.fibers[impulse.val], args)>>,
              buffer |-> rx.buffer, self |-> m]
        ELSE [res |-> "UnrecognizedImpulse", ret |-> <<>>,
              impulse |-> impulse.val, invoked |-> <<>>,
              buffer |-> rx.buffer, self |-> m]

\* recv_impulse that reports n_bytes in UnrecognizedImpulse
recv_impulse_result_nbytes(m, buffer, payload, args) ==
    LET rx      == socket_recv(buffer, payload)
        buff    == SubSeq(rx.buffer, 1, rx.n_bytes)
        impulse == deserialize_from(buff)
    IN  IF ~impulse.ok
        THEN [res |-> "SerdeFailed", ret |-> <<>>, impulse |-> -1,
              invoked |-> <<>>, buffer |-> rx.buffer, self |-> m]
        ELSE IF impulse.val \in DOMAIN m.fibers
        THEN [res |-> "Ok", ret |-> <<call(m.fibers[impulse.val], args)>>,
              impulse |-> impulse.val,
              invoked |-> <<call(m.fibers[impulse.val], args)>>,
              buffer |-> rx.buffer, self |-> m]
        ELSE [res |-> "UnrecognizedImpulse", ret |-> <<>>,
              impulse |-> rx.n_bytes, invoked |-> <<>>,
              buffer |-> rx.buffer, self |-> m]

\* recv_impulse that falls back to some registered behavior when the
\* impulse has no fiber
recv_impulse_result_fallback(m, buffer, payload, args) ==
    LET rx      == socket_recv(buffer, payload)
        buff    == SubSeq(rx.buffer, 1, rx.n_bytes)
        impulse == deserialize_from(buff)
        any     == CHOOSE k \in DOMAIN m.fibers : TRUE
    IN  IF ~impulse.ok
        THEN [res |-> "SerdeFailed", ret |-> <<>>, impulse |-> -1,
              invoked |-> <<>>, buffer |-> rx.buffer, self |-> m]
        ELSE IF impulse.val \in DOMAIN m.fibers
        THEN [res |-> "Ok", ret |-> <<call(m.fibers[impulse.val], args)>>,
              impulse |-> impulse.val,
              invoked |-> <<call(m.fibers[impulse.val], args)>>,
              buffer |-> rx.buffer, self |-> m]
        ELSE IF DOMAIN m.fibers # {}
        THEN [res |-> "Ok", ret |-> <<call(m.fibers[any], args)>>,
              impulse |-> impulse.val,
              invoked |-> <<call(m.fibers[any], args)>>,
              buffer |-> rx.buffer, self |-> m]
        ELSE [res |-> "UnrecognizedImpulse", ret |-> <<>>,
              impulse |-> impulse.val, invoked |-> <<>>,
              buffer |-> rx.buffer, self |-> m]

\* Motor::recv_impulse on motor m once the socket delivered a datagram with
\* this payload: recv into buffer, deserialize buffer[..n_bytes], look the
\* impulse up. invoked lists the behaviors run, self is the motor after
\* the call.
recv_impulse_result(m, buffer, payload, args) ==
    LET rx      == socket_recv(buffer, payload)
        buff    == SubSeq(rx.buffer, 1, rx.n_bytes)
        impulse == deserialize_from(buff)
    IN  IF ~impulse.ok
        THEN [res |-> "SerdeFailed", ret |-> <<>>, impulse |-> -1,
              invoked |-> <<>>, buffer |-> rx.buffer, self |-> m]
        ELSE IF impulse.val \in DOMAIN m.fibers
        THEN [res |-> "Ok", ret |-> <<call(m.fibers[impulse.val], args)>>,
              impulse |-> impulse.val,
              invoked |-> <<call(m.fibers[impulse.val], args)>>,
              buffer |-> rx.buffer, self |-> m]
        ELSE [res |-> "UnrecognizedImpulse", ret |-> <<>>,
              impulse |-> impulse.val, invoked |-> <<>>,
              buffer |-> rx.buffer, self |-> m]

\* the datagrams the motor's socket can deliver
Deliverable == {d \in BagToSet(net) : d.dst = motor.socket.local}

\* recv_impulse that gives up waiting when no datagram is there and
\* deserializes the zero bytes it got
recv_impulse_timeout(buffer, args) ==
    /\ motor.built
    /\ \/ \E d \in Deliverable :
            LET r == recv_impulse_result(motor, buffer, d.payload, args)
            IN  /\ motor' = r.self
                /\ net' = net (-) SetToBag({d})
                /\ last' = [op |-> "recv_impulse", args |-> args,
                            buffer_in |-> buffer, dgram |-> <<d>>,
                            res |-> r.res, ret |-> r.ret,
                            impulse |-> r.impulse, invoked |-> r.invoked,
                            buffer |-> r.buffer,
                            pre |-> [motor |-> motor, net |-> net]]
       \/ /\ motor' = motor
          /\ net' = net
          /\ last' = [op |-> "recv_impulse", args |-> args,
                      buffer_in |-> buffer, dgram |-> <<>>,
                      res |-> IF Deliverable = {} THEN "SerdeFailed"
                                                  ELSE "SocketFailed",
                      ret |-> <<>>,
                      impulse |-> -1, invoked |-> <<>>,
                      buffer |-> buffer,
                      pre |-> [motor |-> motor, net |-> net]]
    /\ UNCHANGED <<sensor, codec>>

\* recv_impulse that takes the datagram off the socket only when it ran a
\* behavior (peek, then consume on success)
recv_impulse_peek(buffer, args) ==
    /\ motor.built
    /\ \/ \E d \in Deliverable :
            LET r == recv_impulse_result(motor, buffer, d.payload, args)
            IN  /\ motor' = r.self
                /\ net' = IF r.res = "Ok" THEN net (-) SetToBag({d}) ELSE net
                /\ last' = [op |-> "recv_impulse", args |-> args,
                            buffer_in |-> buffer, dgram |-> <<d>>,
                            res |-> r.res, ret |-> r.ret,
                            impulse |-> r.impulse, invoked |-> r.invoked,
                            buffer |-> r.buffer,
                            pre |-> [motor |-> motor, net |-> net]]
       \/ /\ motor' = motor
          /\ net' = net
          /\ last' = [op |-> "recv_impulse", args |-> args,
                      buffer_in |-> buffer, dgram |-> <<>>,
                      res |-> "SocketFailed", ret |-> <<>>,
                      impulse |-> -1, invoked |-> <<>>,
                      buffer |-> buffer,
                      pre |-> [motor |-> motor, net |-> net]]
    /\ UNCHANGED <<sensor, codec>>

recv_impulse(buffer, args) ==
    /\ motor.built
    /\ \/ \E d \in Deliverable :
            LET r == recv_impulse_result(motor, buffer, d.payload, args)
            IN  /\ motor' = r.self
                /\ net' = net (-) SetToBag({d})
                /\ last' = [op |-> "recv_impulse", args |-> args,
                            buffer_in |-> buffer, dgram |-> <<d>>,
                            res |-> r.res, ret |-> r.ret,
                            impulse |-> r.impulse, invoked |-> r.invoked,
                            buffer |-> r.buffer,
                            pre |-> [motor |-> motor, net |-> net]]
       \/ /\ motor' = motor
          /\ net' = net
          /\ last' = [op |-> "recv_impulse", args |-> args,
                      buffer_in |-> buffer, dgram |-> <<>>,
                      res |-> "SocketFailed", ret |-> <<>>,
                      impulse |-> -1, invoked |-> <<>>,
                      buffer |-> buffer,
                      pre |-> [motor |-> motor, net |-> net]]
    /\ UNCHANGED <<sensor, codec>>

\* num_fibers that counts the distinct behaviors, not the keys
Motor_num_fibers_values(m) == Cardinality({m.fibers[k] : k \in DOMAIN m.fibers})

\* Tract::num_fibers for Motor
Motor_num_fibers(m) == Cardinality(DOMAIN m.fibers)

----------------------------------------------------------------------------
(* The transport and other senders *)

\* the transport loses a datagram in flight
Drop(d) ==
    /\ net' = net (-) SetToBag({d})
    /\ last' = [op |-> "transport"]
    /\ UNCHANGED <<sensor, motor, codec>>

\* a sender that is not the Sensor puts a datagram on the wire for the
\* motor's socket, which is not connected and takes datagrams from anyone
ForeignSend(payload) ==
    /\ motor.built
    /\ InFlight < MaxInFlight
    /\ net' = net (+) SetToBag({[src |-> ForeignAddr,
                                 dst |-> motor.socket.local,
                                 payload |-> payload]})
    /\ last' = [op |-> "transport"]
    /\ UNCHANGED <<sensor, motor, codec>>

----------------------------------------------------------------------------
(* The endpoints on the transport *)

CodecIdle == [pc |-> "idle", id |-> 0, bytes |-> <<>>,
              out |-> [ok |-> FALSE, val |-> 0]]

Init ==
    /\ sensor = NoSensor
    /\ motor = NoMotor
    /\ net = EmptyBag
    /\ last = [op |-> "init"]
    /\ codec = CodecIdle

Next ==
    \/ \E p \in RequestedPorts : Sensor_new("optic", Addr(p))
    \/ \E q \in Receptors, f \in FiberIds : add_receptor(q, f)
    \/ \E r \in Remotes : connect(r)
    \/ \E r \in Remotes : set_target_address(r)
    \/ \E q \in Quanta : send_impulse(q)
    \/ \E p \in RequestedPorts : Motor_new("flexor", Addr(p))
    \/ \E i \in FiberIds, b \in Behaviors : add_fiber(i, b)
    \/ \E buffer \in Buffers, a \in Args : recv_impulse(buffer, a)
    \/ \E d \in BagToSet(net) : Drop(d)
    \/ \E payload \in ForeignPayloads : ForeignSend(payload)

Spec == Init /\ [][Next]_vars

----------------------------------------------------------------------------
(* The endpoints alone on the transport: no sender but the Sensor *)

OwnNext ==
    \/ \E p \in RequestedPorts : Sensor_new("optic", Addr(p))
    \/ \E q \in Receptors, f \in FiberIds : add_receptor(q, f)
    \/ \E r \in Remotes : connect(r)
    \/ \E r \in Remotes : set_target_address(r)
    \/ \E q \in Quanta : send_impulse(q)
    \/ \E p \in RequestedPorts : Motor_new("flexor", Addr(p))
    \/ \E i \in FiberIds, b \in Behaviors : add_fiber(i, b)
    \/ \E buffer \in Buffers, a \in Args : recv_impulse(buffer, a)
    \/ \E d \in BagToSet(net) : Drop(d)

OwnSpec == Init /\ [][OwnNext]_vars

----------------------------------------------------------------------------
(* The codec on its own, over every u16 *)

CodecEncode ==
    /\ codec.pc = "idle"
    /\ \E id \in 0..U16Max :
         codec' = [pc |-> "encoded", id |-> id, bytes |-> serialize(id),
                   out |-> [ok |-> FALSE, val |-> 0]]
    /\ UNCHANGED <<sensor, motor, net, last>>

CodecDecode ==
    /\ codec.pc = "encoded"
    /\ codec' = [codec EXCEPT !.pc = "decoded",
                              !.out = deserialize_from(codec.bytes)]
    /\ UNCHANGED <<sensor, motor, net, last>>

CodecNext ==
    \/ CodecEncode
    \/ CodecDecode

CodecSpec == Init /\ [][CodecNext]_vars

----------------------------------------------------------------------------
(* Properties *)

IsSend == last.op = "send_impulse"

\* the last call was a recv_impulse that took a datagram off the socket
IsRecv == last.op = "recv_impulse" /\ last.dgram # <<>>

\* the bytes of the datagram that fit the caller's buffer
ReceivedBytes ==
    SubSeq(last.dgram[1].payload, 1,
           Min(Len(last.dgram[1].payload), Len(last.buffer_in)))

\* the u16 whose wire form starts with these two bytes
WireValue(bytes) == bytes[1] + 256 * bytes[2]

\* the last call received a datagram the Sensor transmitted
FromSensor ==
    IsRecv /\ sensor.built /\ last.dgram[1].src = sensor.socket.local

\* what C1 promises of a received Sensor datagram carrying id
DispatchedTo(id) ==
    /\ last.res = "Ok"
    /\ last.ret = <<call(motor.fibers[id], last.args)>>
    /\ last.invoked = <<call(motor.fibers[id], last.args)>>

\* C1 as stated: a recv_impulse that takes a datagram transmitted by the
\* Sensor for a registered id found in the Motor's fibers runs exactly the
\* behavior registered for that id with the caller's args and returns its
\* result, whatever buffer the caller supplies.
C1_AnyBuffer ==
    FromSensor =>
        \A id \in FiberIds :
            (last.dgram[1].payload = serialize(id) /\ id \in DOMAIN motor.fibers)
                => DispatchedTo(id)

\* C1 amended: the same, when the caller's buffer holds at least the two
\* bytes of one encoded id.
C1_BufferHoldsFrame ==
    (FromSensor /\ Len(last.buffer_in) >= 2) =>
        \A id \in FiberIds :
            (last.dgram[1].payload = serialize(id) /\ id \in DOMAIN motor.fibers)
                => DispatchedTo(id)

C1_Witness ==
    /\ FromSensor
    /\ Len(last.buffer_in) >= 2
    /\ last.dgram[1].payload = serialize(7)
    /\ last.res = "Ok"
    /\ last.ret = <<call("fired", "a2")>>
    /\ DOMAIN motor.fibers = FiberIds

\* C2: send_impulse of a quantum with no receptor returns
\* UnrecognizedTrigger with the Sensor's tract_name, hands no datagram to
\* the socket and leaves the datagrams in flight as they were.
C2_UnregisteredSendsNothing ==
    (IsSend /\ last.quantum \notin DOMAIN last.pre.sensor.spectrum) =>
        /\ last.res = "UnrecognizedTrigger"
        /\ last.name = sensor.tract_name
        /\ last.out = <<>>
        /\ net = last.pre.net

C2_Witness ==
    /\ IsSend
    /\ last.quantum = "unknown"
    /\ last.res = "UnrecognizedTrigger"
    /\ last.name = "optic"
    /\ motor.built
    /\ sensor.socket.peer = <<motor.address>>
    /\ DOMAIN sensor.spectrum # {}

\* C3: a recv_impulse whose received bytes decode to an id with no fiber
\* returns UnrecognizedImpulse carrying exactly that id and runs no
\* behavior.
C3_UnrecognizedCarriesId ==
    (IsRecv /\ Len(ReceivedBytes) >= 2
            /\ WireValue(ReceivedBytes) \notin DOMAIN motor.fibers) =>
        /\ last.res = "UnrecognizedImpulse"
        /\ last.impulse = WireValue(ReceivedBytes)
        /\ last.invoked = <<>>
        /\ last.ret = <<>>

C3_Witness ==
    /\ FromSensor
    /\ last.res = "UnrecognizedImpulse"
    /\ last.impulse = 65535
    /\ 7 \in DOMAIN motor.fibers

\* C4: a table changes only by a registration, which binds the key to the
\* new value and leaves every other key as it was, so each key holds the
\* value of its latest registration; a send_impulse sends the id the
\* spectrum holds at the call and a recv_impulse runs the behavior the
\* fibers hold at the call.
C4_LatestRegistrationWins ==
    [][/\ last'.op = "add_receptor" =>
            sensor'.spectrum =
                [k \in DOMAIN sensor.spectrum \cup {last'.quantum} |->
                    IF k = last'.quantum THEN last'.fid
                                         ELSE sensor.spectrum[k]]
       /\ last'.op # "add_receptor" => sensor'.spectrum = sensor.spectrum
       /\ last'.op = "add_fiber" =>
            motor'.fibers =
                [k \in DOMAIN motor.fibers \cup {last'.impulse} |->
                    IF k = last'.impulse THEN last'.behavior
                                         ELSE motor.fibers[k]]
       /\ last'.op # "add_fiber" => motor'.fibers = motor.fibers
       /\ (last'.op = "send_impulse" /\ last'.res = "Ok") =>
            last'.out = <<[src |-> sensor.socket.local,
                           dst |-> sensor.socket.peer[1],
                           payload |-> serialize(sensor.spectrum[last'.quantum])]>>
       /\ (last'.op = "recv_impulse" /\ last'.res = "Ok") =>
            last'.invoked = <<call(motor.fibers[last'.impulse], last'.args)>>
      ]_vars

C4_Witness ==
    /\ last.op = "add_receptor"
    /\ last.old = <<7>>
    /\ last.fid = 65535
    /\ sensor.spectrum["spike_a"] = 65535

\* C5 as stated: a recv_impulse that takes a datagram whose length is not
\* the two bytes of an encoded id returns SerdeFailed and runs no behavior.
C5_AnyOtherLengthFails ==
    (IsRecv /\ Len(last.dgram[1].payload) # 2) =>
        (last.res = "SerdeFailed" /\ last.invoked = <<>>)

\* C5 amended: a datagram shorter than two bytes gives SerdeFailed and runs
\* no behavior; a datagram longer than two bytes, received into a buffer of
\* at least two bytes, is decoded from its first two bytes and does not
\* give SerdeFailed.
C5_ShortFailsLongDecodes ==
    /\ (IsRecv /\ Len(last.dgram[1].payload) < 2) =>
            (last.res = "SerdeFailed" /\ last.invoked = <<>>)
    /\ (IsRecv /\ Len(last.dgram[1].payload) > 2 /\ Len(last.buffer_in) >= 2) =>
            /\ last.res \in {"Ok", "UnrecognizedImpulse"}
            /\ last.impulse = WireValue(last.dgram[1].payload)

C5_Witness ==
    /\ IsRecv
    /\ last.dgram[1].payload = <<7>>
    /\ Len(last.buffer_in) >= 2
    /\ last.res = "SerdeFailed"
    /\ 7 \in DOMAIN motor.fibers

\* prior contents a caller's buffer of this length may hold
StaleBuffers(len) == [1..len -> {0, 7, 255}]

\* C6: the outcome of a recv_impulse is the same for every prior content
\* of the caller's buffer, and a one-byte datagram gives SerdeFailed
\* whatever the buffer held.
C6_StaleBytesIgnored ==
    IsRecv =>
        /\ \A b \in StaleBuffers(Len(last.buffer_in)) :
             LET r == recv_impulse_result(last.pre.motor, b,
                                          last.dgram[1].payload, last.args)
             IN  /\ r.res = last.res
                 /\ r.impulse = last.impulse
                 /\ r.ret = last.ret
                 /\ r.invoked = last.invoked
        /\ Len(last.dgram[1].payload) = 1 => last.res = "SerdeFailed"

C6_Witness ==
    /\ IsRecv
    /\ Len(last.dgram[1].payload) = 1
    /\ Len(last.buffer_in) = 3
    /\ last.buffer = <<7, 0, 0>>
    /\ last.res = "SerdeFailed"

\* C7: after a successful new, the endpoint's address is the address its
\* socket is bound to; when port 0 was requested it differs from the
\* request and its port is not 0.
C7_AddressIsBoundAddress ==
    /\ (last.op = "Sensor::new" /\ last.res = "Ok") =>
            /\ sensor.built
            /\ sensor.address = sensor.socket.local
            /\ sensor.address.port # 0
            /\ last.address.port # 0 => sensor.address = last.address
    /\ (last.op = "Motor::new" /\ last.res = "Ok") =>
            /\ motor.built
            /\ motor.address = motor.socket.local
            /\ motor.address.port # 0
            /\ last.address.port # 0 => motor.address = last.address

C7_Witness ==
    /\ last.op = "Sensor::new"
    /\ last.res = "Ok"
    /\ last.address.port = 0
    /\ sensor.address.port \in EphemeralPorts

\* C8: after a successful connect(remote) the address field is remote; the
\* address field and the socket's peer then change only by a later
\* successful connect or set_target_address; and every datagram a
\* send_impulse hands over is addressed to the address field.
C8_ConnectRetargets ==
    /\ []((last.op = "connect" /\ last.res = "Ok") =>
            (sensor.address = last.remote /\ sensor.socket.peer = <<last.remote>>))
    /\ []((IsSend /\ last.out # <<>>) =>
            (Len(last.out) = 1 /\ last.out[1].dst = sensor.address))
    /\ [][(sensor.built /\ (sensor'.address # sensor.address
                            \/ sensor'.socket.peer # sensor.socket.peer)) =>
            (last'.op \in {"connect", "set_target_address"} /\ last'.res = "Ok")]_vars

C8_Witness ==
    /\ IsSend
    /\ last.res = "Ok"
    /\ last.out[1].dst = Addr(6000)
    /\ sensor.address = Addr(6000)
    /\ sensor.socket.local # sensor.address

\* C9: for every u16 id, serialize gives two bytes and deserializing them
\* gives id back.
C9_RoundTrip ==
    /\ codec.pc \in {"encoded", "decoded"} =>
            /\ Len(codec.bytes) = 2
            /\ \A i \in 1..2 : codec.bytes[i] \in 0..255
    /\ codec.pc = "decoded" => (codec.out.ok /\ codec.out.val = codec.id)

C9_Witness ==
    /\ codec.pc = "decoded"
    /\ codec.id = U16Max
    /\ codec.out = [ok |-> TRUE, val |-> U16Max]

\* C10: after every send_impulse, whatever it returned, the Sensor's
\* spectrum, address, socket and tract_name are what they were before.
C10_SendLeavesSensor ==
    IsSend =>
        /\ sensor.spectrum = last.pre.sensor.spectrum
        /\ sensor.address = last.pre.sensor.address
        /\ sensor.socket = last.pre.sensor.socket
        /\ sensor.tract_name = last.pre.sensor.tract_name

C10_Witness ==
    /\ IsSend
    /\ last.res = "Ok"
    /\ sensor = last.pre.sensor
    /\ net # last.pre.net

\* C11: a send_impulse of a quantum that has a receptor makes one send: when
\* it returns Ok the datagrams in flight are those before the call plus
\* exactly one, from the Sensor's socket to its peer, whose payload is the
\* two bytes of the id the spectrum held at the call; when it fails the
\* datagrams in flight are those before the call.
C11_OneSendPerCall ==
    (IsSend /\ last.quantum \in DOMAIN last.pre.sensor.spectrum) =>
        /\ last.res \in {"Ok", "SocketFailed"}
        /\ last.res = "Ok" =>
             /\ Len(last.out) = 1
             /\ Len(last.out[1].payload) = 2
             /\ last.out[1].payload =
                    <<last.pre.sensor.spectrum[last.quantum] % 256,
                      last.pre.sensor.spectrum[last.quantum] \div 256>>
             /\ last.out[1].dst = last.pre.sensor.socket.peer[1]
             /\ net = last.pre.net (+) SetToBag({last.out[1]})
             /\ BagCardinality(net) = BagCardinality(last.pre.net) + 1
        /\ last.res # "Ok" =>
             /\ last.out = <<>>
             /\ net = last.pre.net

C11_Witness ==
    /\ IsSend
    /\ last.res = "Ok"
    /\ last.quantum = "spike_a"
    /\ last.out[1].payload = <<255, 255>>
    /\ BagCardinality(net) = 1

\* the results recv_impulse gives once it has a datagram
Delivered == {"Ok", "SerdeFailed", "UnrecognizedImpulse"}

\* C12: a recv_impulse returns a behavior's result, SerdeFailed or
\* UnrecognizedImpulse only in a step that takes a datagram which was in
\* flight to the Motor's socket; with no such datagram in flight (never
\* sent, or lost by the transport) no such return happens, however long
\* the call has waited.
C12_ReturnsOnlyOnDatagram ==
    [][(last'.op = "recv_impulse" /\ last'.res \in Delivered) =>
            /\ last'.dgram # <<>>
            /\ BagIn(last'.dgram[1], net)
            /\ last'.dgram[1].dst = motor.socket.local
            /\ BagCardinality(net') = BagCardinality(net) - 1
      ]_vars

C12_Witness ==
    /\ FromSensor
    /\ last.res \in Delivered
    /\ BagIn(last.dgram[1], last.pre.net)
    /\ net = EmptyBag
    /\ sensor.socket.peer = <<motor.socket.local>>

\* C13: from every Sensor state and for every address, a successful
\* set_target_address gives the Sensor a successful connect gives, with
\* the same destination for the next send_impulse; a step of either call
\* leaves either that Sensor (success) or the Sensor as it was (failure).
C13_SetTargetIsConnect ==
    /\ [](sensor.built =>
            \A a \in Remotes :
                /\ set_target_address_ok(sensor, a) = connect_ok(sensor, a)
                /\ \A q \in Quanta :
                     send_impulse_result(set_target_address_ok(sensor, a), q, TRUE).out
                        = send_impulse_result(connect_ok(sensor, a), q, TRUE).out)
    /\ [][last'.op \in {"connect", "set_target_address"} =>
            IF last'.res = "Ok"
            THEN /\ sensor' = connect_ok(sensor, last'.remote)
                 /\ sensor' = set_target_address_ok(sensor, last'.remote)
                 /\ sensor'.address = last'.remote
                 /\ sensor'.socket.peer = <<last'.remote>>
            ELSE sensor' = sensor
       ]_vars

C13_Witness ==
    /\ last.op = "set_target_address"
    /\ last.res = "Ok"
    /\ last.remote = Addr(6000)
    /\ sensor.address = Addr(6000)
    /\ sensor.socket.peer = <<Addr(6000)>>
    /\ DOMAIN sensor.spectrum # {}

\* C14: num_fibers is 0 after new, grows by one with every registration of
\* a key the table did not hold, stays as it is when a key is registered
\* again, and is left alone by every other call (send_impulse and
\* recv_impulse among them): it is the number of distinct keys registered.
C14_NumFibersCountsKeys ==
    /\ []((last.op = "Sensor::new" /\ last.res = "Ok") => Sensor_num_fibers(sensor) = 0)
    /\ []((last.op = "Motor::new" /\ last.res = "Ok") => Motor_num_fibers(motor) = 0)
    /\ [][/\ last'.op = "add_receptor" =>
                Sensor_num_fibers(sensor') = Sensor_num_fibers(sensor)
                    + (IF last'.quantum \in DOMAIN sensor.spectrum THEN 0 ELSE 1)
          /\ (last'.op # "add_receptor" /\ sensor.built) =>
                Sensor_num_fibers(sensor') = Sensor_num_fibers(sensor)
          /\ last'.op = "add_fiber" =>
                Motor_num_fibers(motor') = Motor_num_fibers(motor)
                    + (IF last'.impulse \in DOMAIN motor.fibers THEN 0 ELSE 1)
          /\ (last'.op # "add_fiber" /\ motor.built) =>
                Motor_num_fibers(motor') = Motor_num_fibers(motor)
         ]_vars

C14_Witness ==
    /\ last.op = "add_fiber"
    /\ last.old # <<>>
    /\ Motor_num_fibers(motor) = 2
    /\ Sensor_num_fibers(sensor) = 1

\* C15: a send_impulse returns UnrecognizedTrigger exactly when the quantum
\* has no receptor, connected or not; it returns SocketFailed only for a
\* quantum that has a receptor, and then no datagram went out.
C15_TriggerErrorIffUnregistered ==
    IsSend =>
        /\ last.res = "UnrecognizedTrigger"
              <=> last.quantum \notin DOMAIN last.pre.sensor.spectrum
        /\ last.res = "SocketFailed" =>
              /\ last.quantum \in DOMAIN last.pre.sensor.spectrum
              /\ last.out = <<>>
              /\ net = last.pre.net
        /\ last.res \in {"Ok", "SocketFailed", "UnrecognizedTrigger"}

C15_Witness ==
    /\ IsSend
    /\ last.res = "UnrecognizedTrigger"
    /\ last.pre.sensor.socket.peer = <<>>
    /\ last.quantum = "spike_a"

Retargets == {"connect", "set_target_address"}

\* C16 as stated: a failed connect or set_target_address leaves the Sensor
\* as it was and returns SocketFailed.
C16_FailureIsSocketFailed ==
    [][(last'.op \in Retargets /\ last'.res # "Ok") =>
            (sensor' = sensor /\ last'.res = "SocketFailed")]_vars

\* C16 amended: a failed connect or set_target_address leaves the Sensor's
\* address, spectrum, socket and tract_name as they were; connect returns
\* SocketFailed, set_target_address the std::io::Error itself.
C16_FailureLeavesSensor ==
    [][(last'.op \in Retargets /\ last'.res # "Ok") =>
            /\ sensor'.address = sensor.address
            /\ sensor'.spectrum = sensor.spectrum
            /\ sensor'.socket = sensor.socket
            /\ sensor'.tract_name = sensor.tract_name
            /\ last'.op = "connect" => last'.res = "SocketFailed"
            /\ last'.op = "set_target_address" => last'.res = "IoError"
      ]_vars

C16_Witness ==
    /\ last.op = "connect"
    /\ last.res = "SocketFailed"
    /\ last.remote = Addr(6000)
    /\ sensor.address = Addr(5000)
    /\ sensor.socket.peer = <<Addr(5000)>>
    /\ DOMAIN sensor.spectrum # {}

\* C17: a send_impulse of a quantum that has a receptor, on a Sensor whose
\* socket was never connected, returns SocketFailed and puts no datagram
\* in flight, to the address in the address field or anywhere else.
C17_UnconnectedSendFails ==
    (IsSend /\ last.pre.sensor.socket.peer = <<>>
            /\ last.quantum \in DOMAIN last.pre.sensor.spectrum) =>
        /\ last.res = "SocketFailed"
        /\ last.out = <<>>
        /\ net = last.pre.net
        /\ sensor.address = sensor.socket.local

C17_Witness ==
    /\ IsSend
    /\ last.pre.sensor.socket.peer = <<>>
    /\ last.quantum = "spike_a"
    /\ last.res = "SocketFailed"
    /\ last.pre.sensor.spectrum = [q \in {"spike_a"} |-> 7]
    /\ motor.built

\* C18 as stated: every recv_impulse that returns has taken exactly one
\* datagram off the Motor's socket and left fibers and address alone.
C18_EveryReturnConsumes ==
    last.op = "recv_impulse" =>
        /\ BagCardinality(net) = BagCardinality(last.pre.net) - 1
        /\ motor.fibers = last.pre.motor.fibers
        /\ motor.address = last.pre.motor.address

\* C18 amended: a recv_impulse that returns a behavior's result,
\* SerdeFailed or UnrecognizedImpulse has taken exactly one datagram, which
\* was in flight to the Motor's socket, out of the datagrams in flight, and
\* left fibers and address alone; one that returns SocketFailed has taken
\* none.
C18_DeliveredReturnConsumes ==
    /\ (last.op = "recv_impulse" /\ last.res \in Delivered) =>
            /\ Len(last.dgram) = 1
            /\ BagIn(last.dgram[1], last.pre.net)
            /\ last.dgram[1].dst = motor.socket.local
            /\ net = last.pre.net (-) SetToBag({last.dgram[1]})
            /\ CopiesIn(last.dgram[1], net)
                  = CopiesIn(last.dgram[1], last.pre.net) - 1
            /\ BagCardinality(net) = BagCardinality(last.pre.net) - 1
            /\ motor.fibers = last.pre.motor.fibers
            /\ motor.address = last.pre.motor.address
    /\ (last.op = "recv_impulse" /\ last.res \notin Delivered) =>
            /\ last.res = "SocketFailed"
            /\ last.dgram = <<>>
            /\ net = last.pre.net
            /\ motor = last.pre.motor

C18_Witness ==
    /\ IsRecv
    /\ last.res = "SerdeFailed"
    /\ last.dgram[1].payload = <<7>>
    /\ net = EmptyBag
    /\ last.pre.net = SetToBag({last.dgram[1]})
    /\ DOMAIN motor.fibers = FiberIds

C20_ReconnectRetargetsFuture ==
    /\ []((last.op \in Retargets /\ last.res = "Ok") =>
              sensor.socket.peer = <<last.remote>>)
    /\ []((IsSend /\ last.res = "Ok") =>
              /\ sensor.socket.peer # <<>>
              /\ Len(last.out) = 1
              /\ last.out[1].dst = sensor.socket.peer[1]
              /\ net = last.pre.net (+) SetToBag({last.out[1]}))
    /\ [][/\ ~(last'.op \in Retargets /\ last'.res = "Ok") =>
                sensor'.socket.peer = sensor.socket.peer
          /\ last'.op \in Retargets => net' = net
          /\ (last'.op \in Retargets /\ last'.res = "Ok") =>
                \A q \in DOMAIN sensor'.spectrum :
                    LET r == send_impulse_result(sensor', q, TRUE)
                    IN  /\ r.res = "Ok"
                        /\ r.out[1].dst = last'.remote
         ]_vars

\* a second successful connect, to 6000, while a datagram the Sensor sent
\* after its connect to 5000 is still in flight, addressed to 5000
C20_Witness ==
    /\ last.op = "connect"
    /\ last.res = "Ok"
    /\ last.remote = Addr(6000)
    /\ sensor.socket.peer = <<Addr(6000)>>
    /\ DOMAIN sensor.spectrum # {}
    /\ \E d \in BagToSet(net) :
          /\ d.src = sensor.socket.local
          /\ d.dst = Addr(5000)

====
